---- MODULE Spec2Model ----
(***************************************************************************)
(* Model of the Shai-Hulud deep package scanner (src/detector.js, second   *)
(* script: lines 308-717): feed fetching and normalisation, the registry   *)
(* merge loop, the node_modules walk and the three-way classification;     *)
(* and of the global package checker (first script: lines 1-307): the      *)
(* source fallback loop, its list parser and the check of the flattened    *)
(* dependency tree.                                                        *)
(*                                                                         *)
(* Strings that the program takes apart (feed text, package names,         *)
(* directory entry names, versions) are sequences of one-character         *)
(* strings.  The JavaScript value undefined is the one-element tuple       *)
(* UNDEF, which no character sequence equals.  A JavaScript Map is a       *)
(* record [keys, val]: keys is the insertion order, val the lookup.  A     *)
(* JavaScript Set is a duplicate-free sequence in insertion order.         *)
(***************************************************************************)
EXTENDS Integers, Sequences, FiniteSets, TLC

VARIABLES
  response,          \* what fetchUrl gave in the last loop iteration (input)
  fs,                \* the tree under <projectRoot>/node_modules the walk read (input)
  pc,                \* position of main(): "fetch", "scan", "exit", "done"
  i,                 \* loop index of fetchAllCompromisedPackages
  allCompromised,    \* the unified registry being built
  sourceCompromised, \* the partial registry of the feed processed last
  failed,            \* sources whose iteration logged "Failed"
  allPackages,       \* the map returned by getAllInstalledPackages
  warnings,          \* directories reported by "Warning: Could not scan"
  results,           \* the value returned by scanAllPackages
  exitCode,          \* argument of process.exit
  pair,              \* two feeds merged in both orders (merge-order runs)
  regAB,             \* registry after merging pair[1] then pair[2]
  regBA,             \* registry after merging pair[2] then pair[1]
  mergeStep,         \* number of merges done in a merge-order run
  requests,          \* global checker: the fetchUrl calls so far, with their answers
  document,          \* global checker: what fetchCompromisedPackages returned
  globalList,        \* global checker: the Map of its parseCompromisedList
  installedPackages, \* global checker: the Map of flattenDependencies
  compromisedFound   \* global checker: the array of checkForCompromised

\* the state of the global checker
globalVars ==
  <<requests, document, globalList, installedPackages, compromisedFound>>

vars == <<response, fs, pc, i, allCompromised, sourceCompromised, failed,
          allPackages, warnings, results, exitCode, pair, regAB, regBA,
          mergeStep, globalVars>>

----------------------------------------------------------------------------
(* Bounds of the model *)

\* most records in a structured (JSON) feed
MaxRecords == 2
\* most lines in a text feed
MaxLines == 2
\* most package directories in a file system
MaxPkgs == 2
\* most defects (bad manifests, unreadable directories) in a file system
MaxDefects == 1

----------------------------------------------------------------------------
(* Generic helpers *)

Range(s) == {s[k] : k \in DOMAIN s}

SeqUpTo(S, n) == UNION {[1..k -> S] : k \in 0..n}

UNDEF == <<"undefined">>

\* JavaScript truthiness of a string-or-undefined value
Truthy(x) == x # UNDEF /\ x # <<>>

\* a || b
OrElse(a, b) == IF Truthy(a) THEN a ELSE b

----------------------------------------------------------------------------
(* JavaScript Map and Set *)

EmptyMap == [keys |-> <<>>, val |-> <<>>]

MapHas(m, k) == k \in DOMAIN m.val

MapGet(m, k) == m.val[k]

MapSet(m, k, v) ==
  [keys |-> IF MapHas(m, k) THEN m.keys ELSE Append(m.keys, k),
   val  |-> [x \in (DOMAIN m.val) \cup {k} |-> IF x = k THEN v ELSE m.val[x]]]

MapSize(m) == Len(m.keys)

EmptySet == <<>>

SetAdd(s, x) == IF x \in Range(s) THEN s ELSE Append(s, x)

----------------------------------------------------------------------------
(* String operations used by parseCompromisedList *)

IsSpace(c) == c \in {" ", "\t", "\r"}

RECURSIVE TrimStart(_)
TrimStart(s) ==
  IF s # <<>> /\ IsSpace(Head(s)) THEN TrimStart(Tail(s)) ELSE s

RECURSIVE TrimEnd(_)
TrimEnd(s) ==
  IF s # <<>> /\ IsSpace(s[Len(s)]) THEN TrimEnd(SubSeq(s, 1, Len(s) - 1)) ELSE s

\* String.prototype.trim
Trim(s) == TrimEnd(TrimStart(s))

\* String.prototype.startsWith, for a one-character prefix
StartsWith(s, c) == s # <<>> /\ Head(s) = c

\* String.prototype.includes, for a one-character needle
Includes(s, c) == c \in Range(s)

\* index of the first occurrence of one of the characters cs, 0 if none
RECURSIVE IndexOfAny(_, _, _)
IndexOfAny(s, cs, from) ==
  IF from > Len(s) THEN 0
  ELSE IF s[from] \in cs THEN from
  ELSE IndexOfAny(s, cs, from + 1)

\* String.prototype.split, for a one-character separator
RECURSIVE Split(_, _)
Split(s, c) ==
  LET k == IndexOfAny(s, {c}, 1) IN
    IF k = 0 THEN <<s>>
    ELSE <<SubSeq(s, 1, k - 1)>> \o Split(SubSeq(s, k + 1, Len(s)), c)

\* Array.prototype.filter(Boolean) on an array of strings
RECURSIVE FilterNonEmpty(_)
FilterNonEmpty(ss) ==
  IF ss = <<>> THEN <<>>
  ELSE IF Head(ss) = <<>> THEN FilterNonEmpty(Tail(ss))
  ELSE <<Head(ss)>> \o FilterNonEmpty(Tail(ss))

\* line.match(/^([^:@]+)[:@](.+)$/): the groups, or <<>> when there is no match.
\* The first group is the longest run of characters other than ':' and '@',
\* so the separator is the first ':' or '@' of the line.
RegexMatch(line) ==
  LET k == IndexOfAny(line, {":", "@"}, 1) IN
    IF k > 1 /\ k < Len(line)
      THEN <<SubSeq(line, 1, k - 1), SubSeq(line, k + 1, Len(line))>>
      ELSE <<>>

----------------------------------------------------------------------------
(* The known-bad sources *)

COMPROMISED_SOURCES ==
  <<[name |-> "GenSec HQ"], [name |-> "Tenable (JSON)"],
    [name |-> "Cobenian"], [name |-> "Tenable (MD)"]>>

NumSources == Len(COMPROMISED_SOURCES)

----------------------------------------------------------------------------
(* parseCompromisedList *)

NewEntry == [versions |-> EmptyMap, sources |-> EmptySet]

\* the five statements every branch runs for an extracted (name, version)
AddEntry(compromised, name, version, sourceName) ==
  LET c1  == IF MapHas(compromised, name) THEN compromised
             ELSE MapSet(compromised, name, NewEntry)
      pkg == MapGet(c1, name)
      vs1 == IF MapHas(pkg.versions, version) THEN pkg.versions
             ELSE MapSet(pkg.versions, version, EmptySet)
      vs2 == MapSet(vs1, version, SetAdd(MapGet(vs1, version), sourceName))
  IN  MapSet(c1, name, [versions |-> vs2,
                        sources  |-> SetAdd(pkg.sources, sourceName)])

Package == <<"P", "a", "c", "k", "a", "g", "e">>
Version == <<"V", "e", "r", "s", "i", "o", "n">>

\* a line that contains '|'
ParsePipeLine(compromised, line, sourceName) ==
  LET cells == Split(line, "|")
      parts == FilterNonEmpty([k \in DOMAIN cells |-> Trim(cells[k])])
  IN  IF Len(parts) >= 2 /\ Truthy(parts[1]) /\ Truthy(parts[2])
           /\ parts[1] # Package /\ parts[2] # Version
        THEN AddEntry(compromised, parts[1], parts[2], sourceName)
        ELSE compromised

\* a line without '|': name, then ':' or '@', then version
ParseMatchLine(compromised, line, sourceName) ==
  LET match == RegexMatch(line) IN
    IF match # <<>>
      THEN AddEntry(compromised, Trim(match[1]), Trim(match[2]), sourceName)
      ELSE compromised

\* the body of lines.forEach
ParseLine(compromised, rawLine, sourceName) ==
  LET line == Trim(rawLine) IN
    IF line = <<>> \/ StartsWith(line, "#") \/ StartsWith(line, "|")
      THEN compromised
    ELSE IF Includes(line, "|")
      THEN ParsePipeLine(compromised, line, sourceName)
    ELSE ParseMatchLine(compromised, line, sourceName)

RECURSIVE ParseLines(_, _, _)
ParseLines(compromised, lines, sourceName) ==
  IF lines = <<>> THEN compromised
  ELSE ParseLines(ParseLine(compromised, Head(lines), sourceName),
                  Tail(lines), sourceName)

\* typeof data === 'string'
ParseText(text, sourceName) == ParseLines(EmptyMap, Split(text, "\n"), sourceName)

\* A result that is either a value or a thrown exception
Ok(v) == [ok |-> TRUE, value |-> v]
Throw == [ok |-> FALSE]

\* forEach over the records of a structured feed.  preferName is TRUE for
\* data.packages (pkg.name || pkg.package) and FALSE for a bare array
\* (pkg.package || pkg.name).  Reading a property of null throws TypeError.
RECURSIVE ParseRecords(_, _, _, _)
ParseRecords(compromised, items, sourceName, preferName) ==
  IF items = <<>> THEN Ok(compromised)
  ELSE LET pkg == Head(items) IN
    IF pkg.t = "null" THEN Throw
    ELSE LET name == IF preferName THEN OrElse(pkg.name, pkg.package)
                     ELSE OrElse(pkg.package, pkg.name)
         IN ParseRecords(AddEntry(compromised, name, pkg.version, sourceName),
                         Tail(items), sourceName, preferName)

\* typeof data === 'object'; typeof null is 'object' and null.packages throws
ParseObject(data, sourceName) ==
  IF data.t = "null" THEN Throw
  ELSE IF data.t = "object" /\ data.packages.t = "array"
    THEN ParseRecords(EmptyMap, data.packages.items, sourceName, TRUE)
  ELSE IF data.t = "array"
    THEN ParseRecords(EmptyMap, data.items, sourceName, FALSE)
  ELSE Ok(EmptyMap)

parseCompromisedList(data, sourceName) ==
  IF data.t = "string" THEN Ok(ParseText(data.s, sourceName))
  ELSE IF data.t \in {"null", "object", "array"} THEN ParseObject(data, sourceName)
  ELSE Ok(EmptyMap)

----------------------------------------------------------------------------
(* fetchAllCompromisedPackages *)

\* What fetchUrl gives for one source: a rejection (network error or a status
\* other than 200), or the body.  A body is either text that JSON.parse
\* accepts, given by the value it parses to, or text that makes it throw.
FetchError == [kind |-> "error"]
JsonBody(v) == [kind |-> "json", value |-> v]
TextBody(s) == [kind |-> "text", text |-> s]

\* try { parsed = JSON.parse(data) } catch { parsed = data }
JsonParseOrRaw(data) ==
  IF data.kind = "json" THEN data.value ELSE [t |-> "string", s |-> data.text]

RECURSIVE AddAll(_, _)
AddAll(set, xs) == IF xs = <<>> THEN set ELSE AddAll(SetAdd(set, Head(xs)), Tail(xs))

\* Mutant of MergeSrcs: the version's set is replaced by the incoming feed's
\* sources (versions.set(version, new Set(sources))) instead of growing.
MergeSrcsOverwrite(existing, version, sources) ==
  [versions |-> MapSet(existing.versions, version, sources),
   sources  |-> AddAll(existing.sources, sources)]

\* for (const src of sources): add src to the version's set and to the entry's
RECURSIVE MergeSrcs(_, _, _)
MergeSrcs(existing, version, sources) ==
  IF sources = <<>> THEN existing
  ELSE MergeSrcs(
         [versions |-> MapSet(existing.versions, version,
                         SetAdd(MapGet(existing.versions, version), Head(sources))),
          sources  |-> SetAdd(existing.sources, Head(sources))],
         version, Tail(sources))

\* Mutant of MergeVersions: a version the registry already has is left as it
\* is (continue when existing.versions.has(version)), so a second feed that
\* reports it is not added to its sources.
RECURSIVE MergeVersionsSkipKnown(_, _, _)
MergeVersionsSkipKnown(existing, pkgData, versionKeys) ==
  IF versionKeys = <<>> THEN existing
  ELSE LET version == Head(versionKeys) IN
    IF MapHas(existing.versions, version)
      THEN MergeVersionsSkipKnown(existing, pkgData, Tail(versionKeys))
      ELSE MergeVersionsSkipKnown(
             MergeSrcs([existing EXCEPT
                          !.versions = MapSet(existing.versions, version, EmptySet)],
                       version, MapGet(pkgData.versions, version)),
             pkgData, Tail(versionKeys))

\* for (const [version, sources] of pkgData.versions)
RECURSIVE MergeVersions(_, _, _)
MergeVersions(existing, pkgData, versionKeys) ==
  IF versionKeys = <<>> THEN existing
  ELSE LET version == Head(versionKeys)
           e1 == IF MapHas(existing.versions, version) THEN existing
                 ELSE [existing EXCEPT
                         !.versions = MapSet(existing.versions, version, EmptySet)]
       IN  MergeVersions(MergeSrcs(e1, version, MapGet(pkgData.versions, version)),
                         pkgData, Tail(versionKeys))

\* for (const [name, pkgData] of sourceCompromised)
RECURSIVE MergeNames(_, _, _)
MergeNames(all, partial, names) ==
  IF names = <<>> THEN all
  ELSE LET name == Head(names)
           a1 == IF MapHas(all, name) THEN all ELSE MapSet(all, name, NewEntry)
           pkgData == MapGet(partial, name)
       IN  MergeNames(
             MapSet(a1, name,
                    MergeVersions(MapGet(a1, name), pkgData, pkgData.versions.keys)),
             partial, Tail(names))

\* the merge loop of one iteration
MergeInto(all, partial) == MergeNames(all, partial, partial.keys)

\* fetchUrl answered by `answer`, then JSON.parse and parseCompromisedList:
\* the partial registry, or the exception that reaches the loop's catch
ParsedFeed(source, answer) ==
  IF answer.kind = "error" THEN Throw
  ELSE parseCompromisedList(JsonParseOrRaw(answer), source.name)

\* the registry after one iteration of the loop
MergedWith(all, parsedList) ==
  IF parsedList.ok THEN MergeInto(all, parsedList.value) ELSE all

\* Mutant of FetchIteration: the catch leaves the loop (break) instead of
\* going on with the next source.
FetchIterationBreak(answer) ==
  LET parsedList == ParsedFeed(COMPROMISED_SOURCES[i + 1], answer) IN
    /\ response' = answer
    /\ sourceCompromised' = IF parsedList.ok THEN parsedList.value ELSE EmptyMap
    /\ allCompromised' = MergedWith(allCompromised, parsedList)
    /\ failed' = IF parsedList.ok THEN failed ELSE failed \cup {i + 1}
    /\ i' = i + 1
    /\ pc' = IF parsedList.ok /\ i + 1 < NumSources THEN "fetch" ELSE "scan"

\* One iteration of the for loop over COMPROMISED_SOURCES, whose fetch is
\* answered by `answer`.  A rejected fetch or an exception of
\* parseCompromisedList lands in the catch, which logs "Failed"; either way
\* the loop goes on, and after the last source main() goes on to the scan.
FetchIteration(answer) ==
  LET parsedList == ParsedFeed(COMPROMISED_SOURCES[i + 1], answer) IN
    /\ response' = answer
    /\ sourceCompromised' = IF parsedList.ok THEN parsedList.value ELSE EmptyMap
    /\ allCompromised' = MergedWith(allCompromised, parsedList)
    /\ failed' = IF parsedList.ok THEN failed ELSE failed \cup {i + 1}
    /\ i' = i + 1
    /\ pc' = IF i + 1 < NumSources THEN "fetch" ELSE "scan"

----------------------------------------------------------------------------
(* The file system read by getAllInstalledPackages *)

\* A path is the sequence of its components; path.join(p, name) appends.
\* A disk is [pkgs, unreadable, order]: pkgs maps the path of every entry of
\* a container (or of a scope directory) to what lies there, unreadable is
\* the set of directories whose readdirSync throws, and order is the order
\* in which readdirSync lists names (it is not specified by the platform).
NODE_MODULES == <<"n", "o", "d", "e", "_", "m", "o", "d", "u", "l", "e", "s">>

PathJoin(path, name) == Append(path, name)

IsProperPrefix(p, q) == Len(p) < Len(q) /\ SubSeq(q, 1, Len(p)) = p

\* what lies at an entry: a plain file, a directory without package.json, a
\* directory whose package.json does not parse, or a parsed manifest
IsFile == [t |-> "file"]
NoManifest == [t |-> "nomanifest"]
Corrupt == [t |-> "corrupt"]
Manifest(v) == [t |-> "manifest", version |-> v]

\* paths below dir that the disk holds
Below(disk, dir) ==
  {q \in (DOMAIN disk.pkgs) \cup disk.unreadable : IsProperPrefix(dir, q)}

\* fs.existsSync(dir) for a directory
ExistsDir(disk, dir) == dir \in disk.unreadable \/ Below(disk, dir) # {}

\* fs.existsSync(path.join(packagePath, 'package.json'))
ExistsManifest(disk, packagePath) ==
  /\ packagePath \in DOMAIN disk.pkgs
  /\ disk.pkgs[packagePath].t \in {"corrupt", "manifest"}

\* entry.isDirectory()
IsDirectory(disk, path) ==
  ~(path \in DOMAIN disk.pkgs /\ disk.pkgs[path].t = "file")

\* fs.readdirSync(dir, { withFileTypes: true }): the entry names, or a throw
Readdir(disk, dir) ==
  IF dir \in disk.unreadable THEN Throw
  ELSE LET names == {q[Len(dir) + 1] : q \in Below(disk, dir)}
           Listed(n) == n \in names
       IN  Ok(SelectSeq(disk.order, Listed))

----------------------------------------------------------------------------
(* getAllInstalledPackages *)

\* The walk threads [scanned, warnings]: scanned is the Map the calls share,
\* warnings the directories named by console.error.
NoPackages == [scanned |-> EmptyMap, warnings |-> <<>>]

Thrown(st) == [thrown |-> TRUE, st |-> st]
Done(st) == [thrown |-> FALSE, st |-> st]

RECURSIVE getAllInstalledPackages(_, _, _)
RECURSIVE WalkEntries(_, _, _, _)
RECURSIVE WalkScoped(_, _, _, _, _)

\* if (fs.existsSync(packageJsonPath) && !scanned.has(packageName)) { try ... }
VisitPackage(disk, st, packageName, packagePath) ==
  IF ExistsManifest(disk, packagePath) /\ ~MapHas(st.scanned, packageName)
    THEN IF disk.pkgs[packagePath].t = "corrupt" THEN st
         ELSE LET st1 == [st EXCEPT !.scanned =
                            MapSet(st.scanned, packageName,
                                   [version |-> disk.pkgs[packagePath].version,
                                    path    |-> packagePath])]
                  nestedNodeModules == PathJoin(packagePath, NODE_MODULES)
              IN  IF ExistsDir(disk, nestedNodeModules)
                    THEN getAllInstalledPackages(disk, nestedNodeModules, st1)
                    ELSE st1
    ELSE st

\* Mutant of WalkScoped: the package is named by its directory alone
\* (packageName = scopedPkg.name), without the scope.
RECURSIVE WalkScopedBareName(_, _, _, _, _)
WalkScopedBareName(disk, st, scopeName, scopePath, scopedPackages) ==
  IF scopedPackages = <<>> THEN st
  ELSE LET scopedPkg == Head(scopedPackages)
           packagePath == PathJoin(scopePath, scopedPkg)
           st1 == IF ~IsDirectory(disk, packagePath) THEN st
                  ELSE VisitPackage(disk, st, scopedPkg, packagePath)
       IN  WalkScopedBareName(disk, st1, scopeName, scopePath,
                              Tail(scopedPackages))

\* for (const scopedPkg of scopedPackages)
WalkScoped(disk, st, scopeName, scopePath, scopedPackages) ==
  IF scopedPackages = <<>> THEN st
  ELSE LET scopedPkg == Head(scopedPackages)
           packagePath == PathJoin(scopePath, scopedPkg)
           st1 == IF ~IsDirectory(disk, packagePath) THEN st
                  ELSE VisitPackage(disk, st, scopeName \o <<"/">> \o scopedPkg,
                                    packagePath)
       IN  WalkScoped(disk, st1, scopeName, scopePath, Tail(scopedPackages))

\* Mutant of WalkEntries: the inner try/catch around JSON.parse of a regular
\* package is missing, so a manifest that does not parse throws out of the
\* loop over the container's entries.
RECURSIVE WalkEntriesCorruptThrows(_, _, _, _)
WalkEntriesCorruptThrows(disk, nodeModulesPath, st, entries) ==
  IF entries = <<>> THEN Done(st)
  ELSE LET entry == Head(entries)
           path == PathJoin(nodeModulesPath, entry)
       IN  IF ~IsDirectory(disk, path)
             THEN WalkEntriesCorruptThrows(disk, nodeModulesPath, st, Tail(entries))
           ELSE IF StartsWith(entry, "@")
             THEN LET scopedPackages == Readdir(disk, path) IN
                    IF ~scopedPackages.ok THEN Thrown(st)
                    ELSE WalkEntriesCorruptThrows(disk, nodeModulesPath,
                           WalkScoped(disk, st, entry, path, scopedPackages.value),
                           Tail(entries))
           ELSE IF /\ ExistsManifest(disk, path)
                   /\ ~MapHas(st.scanned, entry)
                   /\ disk.pkgs[path].t = "corrupt"
             THEN Thrown(st)
           ELSE WalkEntriesCorruptThrows(disk, nodeModulesPath,
                  VisitPackage(disk, st, entry, path), Tail(entries))

\* for (const entry of entries); a throw of the scope readdirSync leaves it
WalkEntries(disk, nodeModulesPath, st, entries) ==
  IF entries = <<>> THEN Done(st)
  ELSE LET entry == Head(entries)
           path == PathJoin(nodeModulesPath, entry)
       IN  IF ~IsDirectory(disk, path)
             THEN WalkEntries(disk, nodeModulesPath, st, Tail(entries))
           ELSE IF StartsWith(entry, "@")
             THEN LET scopedPackages == Readdir(disk, path) IN
                    IF ~scopedPackages.ok THEN Thrown(st)
                    ELSE WalkEntries(disk, nodeModulesPath,
                           WalkScoped(disk, st, entry, path, scopedPackages.value),
                           Tail(entries))
           ELSE WalkEntries(disk, nodeModulesPath,
                            VisitPackage(disk, st, entry, path), Tail(entries))

Warn(st, dir) == [st EXCEPT !.warnings = Append(st.warnings, dir)]

getAllInstalledPackages(disk, nodeModulesPath, st) ==
  IF ~ExistsDir(disk, nodeModulesPath) THEN st
  ELSE LET entries == Readdir(disk, nodeModulesPath) IN
    IF ~entries.ok THEN Warn(st, nodeModulesPath)
    ELSE LET walked == WalkEntries(disk, nodeModulesPath, st, entries.value) IN
      IF walked.thrown THEN Warn(walked.st, nodeModulesPath) ELSE walked.st

----------------------------------------------------------------------------
(* scanAllPackages *)

NoResults == [compromised |-> <<>>, suspicious |-> <<>>, safe |-> 0,
              totalScanned |-> 0]

\* Mutants of ClassifyPackage.  "safe": the else of if (compromisedData) is
\* lost, so safe also counts listed packages.  "entry": a compromised record
\* carries the entry's sources instead of the matched version's.  "first": a
\* suspicious record carries the sources of the first known-bad version.
ClassifyMutant(res, name, info, compromisedList, kind) ==
  LET res1 == IF kind = "safe" \/ ~MapHas(compromisedList, name)
                THEN [res EXCEPT !.safe = @ + 1] ELSE res
  IN  IF MapHas(compromisedList, name)
        THEN LET compromisedData == MapGet(compromisedList, name)
                 allVersions == compromisedData.versions.keys
                 record(sources) ==
                   [name |-> name, installedVersion |-> info.version,
                    compromisedVersions |-> allVersions, sources |-> sources,
                    path |-> info.path]
             IN  IF MapHas(compromisedData.versions, info.version)
                   THEN [res1 EXCEPT !.compromised = Append(@,
                           [allSources |-> compromisedData.sources] @@
                           record(IF kind = "entry" THEN compromisedData.sources
                                  ELSE MapGet(compromisedData.versions,
                                              info.version)))]
                   ELSE [res1 EXCEPT !.suspicious = Append(@,
                           record(IF kind = "first"
                                    THEN MapGet(compromisedData.versions,
                                                allVersions[1])
                                    ELSE compromisedData.sources))]
        ELSE res1

ClassifyPackageSafeAlways(res, name, info, compromisedList) ==
  ClassifyMutant(res, name, info, compromisedList, "safe")

ClassifyPackageEntrySources(res, name, info, compromisedList) ==
  ClassifyMutant(res, name, info, compromisedList, "entry")

ClassifyPackageFirstSources(res, name, info, compromisedList) ==
  ClassifyMutant(res, name, info, compromisedList, "first")

\* the body of for (const [name, info] of allPackages)
ClassifyPackage(res, name, info, compromisedList) ==
  IF MapHas(compromisedList, name)
    THEN LET compromisedData == MapGet(compromisedList, name)
             allVersions == compromisedData.versions.keys
         IN  IF MapHas(compromisedData.versions, info.version)
               THEN [res EXCEPT !.compromised = Append(@,
                       [name |-> name,
                        installedVersion |-> info.version,
                        compromisedVersions |-> allVersions,
                        sources |-> MapGet(compromisedData.versions, info.version),
                        allSources |-> compromisedData.sources,
                        path |-> info.path])]
               ELSE [res EXCEPT !.suspicious = Append(@,
                       [name |-> name,
                        installedVersion |-> info.version,
                        compromisedVersions |-> allVersions,
                        sources |-> compromisedData.sources,
                        path |-> info.path])]
    ELSE [res EXCEPT !.safe = @ + 1]

RECURSIVE ClassifyAll(_, _, _, _)
ClassifyAll(res, names, packages, compromisedList) ==
  IF names = <<>> THEN res
  ELSE ClassifyAll(
         ClassifyPackage(res, Head(names), MapGet(packages, Head(names)),
                         compromisedList),
         Tail(names), packages, compromisedList)

\* results for the installed map `packages` against `compromisedList`
Classify(packages, compromisedList) ==
  ClassifyAll([NoResults EXCEPT !.totalScanned = MapSize(packages)],
              packages.keys, packages, compromisedList)

\* process.exit(results.compromised.length > 0 ? 1 : 0)
ExitStatus(res) == IF Len(res.compromised) > 0 THEN 1 ELSE 0

----------------------------------------------------------------------------
(* Inputs: names, versions, feed bodies *)

Foo == <<"f", "o", "o">>
Bar == <<"b", "a", "r">>
Scope == <<"@", "s">>
ScopedBar == Scope \o <<"/">> \o Bar
V10 == <<"1", ".", "0">>
V09 == <<"0", ".", "9">>
V20 == <<"2", ".", "0">>

\* JSON values
JsonNull == [t |-> "null"]
JsonNumber == [t |-> "number"]
JsonUndefined == [t |-> "undefined"]
JsonString(s) == [t |-> "string", s |-> s]
JsonArray(items) == [t |-> "array", items |-> items]
JsonObject(packages) == [t |-> "object", packages |-> packages]
Record(name, package, version) ==
  [t |-> "object", name |-> name, package |-> package, version |-> version]

\* records of an object-with-array feed
PackagesRecords ==
  { Record(Foo, UNDEF, V10),        \* {name: "foo", version: "1.0"}
    Record(Bar, UNDEF, UNDEF),      \* {name: "bar"}: no version
    Record(UNDEF, UNDEF, V10) }     \* {version: "1.0"}: no name

\* records of a bare-array feed
ArrayRecords ==
  { Record(UNDEF, Foo, V09),        \* {package: "foo", version: "0.9"}
    Record(<<>>, Bar, V10),         \* {name: "", package: "bar", version: "1.0"}
    JsonNull }                      \* null

\* lines of a name-separator-version text feed
MatchLines ==
  { Foo \o <<"@">> \o V10,                  \* foo@1.0
    ScopedBar \o <<":", " ">> \o V20,        \* @s/bar: 2.0
    <<"<", "h", "t", "m", "l", ">">> }       \* <html>

\* lines of a table text feed
\* | Package | Version |
TableHeader ==
  <<"|", " ">> \o Package \o <<" ", "|", " ">> \o Version \o <<" ", "|">>
\* | foo | 1.0 |
TableRow == <<"|", " ">> \o Foo \o <<" ", "|", " ">> \o V10 \o <<" ", "|">>
\* bar | 0.9
BareRow == Bar \o <<" ", "|", " ">> \o V09
\* # foo@2.0
CommentLine == <<"#", " ">> \o Foo \o <<"@">> \o V20

\* @s/bar@2.0
ScopedLine == ScopedBar \o <<"@">> \o V20

TableLines == {TableHeader, TableRow, BareRow}

\* lines joined by "\n"
RECURSIVE JoinLines(_)
JoinLines(lines) ==
  IF lines = <<>> THEN <<>>
  ELSE IF Len(lines) = 1 THEN Head(lines)
  ELSE Head(lines) \o <<"\n">> \o JoinLines(Tail(lines))

TextsOf(lines, n) == {TextBody(JoinLines(ls)) : ls \in SeqUpTo(lines, n)}

\* What each source may answer, by position in COMPROMISED_SOURCES.  None of
\* the texts is valid JSON.
Responses ==
  << {FetchError, JsonBody(JsonNull), JsonBody(JsonObject(JsonUndefined))}
       \cup {JsonBody(JsonObject(JsonArray(rs))) :
               rs \in SeqUpTo(PackagesRecords, MaxRecords)},
     {FetchError, JsonBody(JsonNumber), JsonBody(JsonObject(JsonNumber))}
       \cup {JsonBody(JsonArray(rs)) : rs \in SeqUpTo(ArrayRecords, MaxRecords)},
     {FetchError, JsonBody(JsonString(Bar \o <<":">> \o V09)),
      TextBody(JoinLines(<<CommentLine, <<>>, Bar \o <<":">> \o V09>>)),
      TextBody(JoinLines(<<ScopedLine, Foo \o <<"@">> \o V10>>))}
       \cup TextsOf(MatchLines, MaxLines),
     {FetchError} \cup TextsOf(TableLines, MaxLines) >>

\* The answers of a run that varies the tree: each source either fails or
\* answers one fixed list (foo@1.0 and @s/bar@0.9; foo@0.9 and a version-less
\* bar; foo@1.0 and bar:0.9; bar:2.0).
FewResponses ==
  << {FetchError,
      JsonBody(JsonObject(JsonArray(
        <<Record(Foo, UNDEF, V10), Record(ScopedBar, UNDEF, V09)>>)))},
     {FetchError,
      JsonBody(JsonArray(<<Record(UNDEF, Foo, V09), Record(Bar, UNDEF, UNDEF)>>))},
     {FetchError,
      TextBody(JoinLines(<<Foo \o <<"@">> \o V10, Bar \o <<":">> \o V09>>))},
     {FetchError, TextBody(Bar \o <<":">> \o V20)} >>

----------------------------------------------------------------------------
(* Inputs: file systems *)

Ascending == <<Scope, Bar, Foo>>
Descending == <<Foo, Bar, Scope>>
Orders == {Ascending, Descending}

RootNodeModules == <<NODE_MODULES>>

\* entries of the root container, and of a package's own node_modules
TopEntries == {<<Foo>>, <<Bar>>, <<Scope, Bar>>}
NestedEntries == {<<Foo>>, <<Bar>>}

TopPaths == {RootNodeModules \o e : e \in TopEntries}
NestedPaths(p) == {p \o <<NODE_MODULES>> \o e : e \in NestedEntries}

\* sets of at most n entry paths in which every nested entry has its parent
RECURSIVE PathSets(_)
PathSets(n) ==
  IF n = 0 THEN {{}}
  ELSE LET prev == PathSets(n - 1) IN
    prev \cup UNION {
      {S \cup {p} : p \in TopPaths \cup UNION {NestedPaths(q) : q \in S}} :
      S \in prev }

GoodStatus == {Manifest(V10), Manifest(V09)}
BadStatus == {IsFile, NoManifest, Corrupt, Manifest(UNDEF)}

\* directories whose listing may fail
DirsOf(S) ==
  {RootNodeModules, PathJoin(RootNodeModules, Scope)}
    \cup {PathJoin(p, NODE_MODULES) : p \in S}

\* a plain file has nothing below it
Consistent(disk) ==
  \A p \in DOMAIN disk.pkgs :
    disk.pkgs[p].t = "file" =>
      ~\E q \in (DOMAIN disk.pkgs) \cup disk.unreadable : IsProperPrefix(p, q)

Defects(disk) ==
  Cardinality({p \in DOMAIN disk.pkgs : disk.pkgs[p] \in BadStatus})
    + Cardinality(disk.unreadable)

DisksOn(S) ==
  { disk \in [pkgs : [S -> GoodStatus \cup BadStatus],
              unreadable : {u \in SUBSET DirsOf(S) : Cardinality(u) <= MaxDefects},
              order : Orders] :
      Consistent(disk) /\ Defects(disk) <= MaxDefects }

Disks == UNION {DisksOn(S) : S \in PathSets(MaxPkgs)}

\* the tree of a run that looks at the feeds: foo 1.0, bar 0.9, @s/bar 2.0
PlainDisk ==
  [pkgs |-> [p \in TopPaths |->
               IF p = RootNodeModules \o <<Foo>> THEN Manifest(V10)
               ELSE IF p = RootNodeModules \o <<Bar>> THEN Manifest(V09)
               ELSE Manifest(V20)],
   unreadable |-> {},
   order |-> Ascending]

FewDisks == {PlainDisk}

----------------------------------------------------------------------------
(* main *)

NoDisk == [pkgs |-> <<>>, unreadable |-> {}, order |-> <<>>]

\* no value yet (a const of main before its assignment)
NoDocument == [t |-> "none"]

\* the global checker before its first request
InitGlobal ==
  /\ requests = <<>>
  /\ document = NoDocument
  /\ globalList = EmptyMap
  /\ installedPackages = EmptyMap
  /\ compromisedFound = <<>>

Init ==
  /\ response = FetchError
  /\ fs = NoDisk
  /\ pc = "fetch"
  /\ i = 0
  /\ allCompromised = EmptyMap
  /\ sourceCompromised = EmptyMap
  /\ failed = {}
  /\ allPackages = EmptyMap
  /\ warnings = <<>>
  /\ results = NoResults
  /\ exitCode = -1
  /\ pair = <<>>
  /\ regAB = EmptyMap
  /\ regBA = EmptyMap
  /\ mergeStep = 0
  /\ InitGlobal

\* fetchAllCompromisedPackages, one source per step
FetchSource(answers) ==
  /\ pc = "fetch"
  /\ i < NumSources
  /\ \E answer \in answers[i + 1] : FetchIteration(answer)
  /\ UNCHANGED <<fs, allPackages, warnings, results, exitCode,
                 pair, regAB, regBA, mergeStep, globalVars>>

\* scanAllPackages(projectRoot, compromisedList) on the tree `disk`
ScanAllPackages(disks) ==
  /\ pc = "scan"
  /\ \E disk \in disks :
       LET walked == getAllInstalledPackages(disk, RootNodeModules, NoPackages) IN
         /\ fs' = disk
         /\ allPackages' = walked.scanned
         /\ warnings' = walked.warnings
         /\ results' = Classify(walked.scanned, allCompromised)
  /\ pc' = "exit"
  /\ UNCHANGED <<response, i, allCompromised, sourceCompromised, failed,
                 exitCode, pair, regAB, regBA, mergeStep, globalVars>>

\* printResults(results); process.exit(...)
Exit ==
  /\ pc = "exit"
  /\ exitCode' = ExitStatus(results)
  /\ pc' = "done"
  /\ UNCHANGED <<response, fs, i, allCompromised, sourceCompromised, failed,
                 allPackages, warnings, results, pair, regAB, regBA, mergeStep,
                 globalVars>>

\* a run that varies the installation tree
Next == FetchSource(FewResponses) \/ ScanAllPackages(Disks) \/ Exit

Spec == Init /\ [][Next]_vars

\* a run that varies the feeds
NextFeeds == FetchSource(Responses) \/ ScanAllPackages(FewDisks) \/ Exit

SpecFeeds == Init /\ [][NextFeeds]_vars

----------------------------------------------------------------------------
(* Merging two feeds in both orders *)

\* two feeds of different sources, each with one of its answers
FeedPairs ==
  { <<[source |-> COMPROMISED_SOURCES[a], answer |-> x],
      [source |-> COMPROMISED_SOURCES[b], answer |-> y]>> :
      <<a, b, x, y>> \in
        UNION { {a} \X {b} \X Responses[a] \X Responses[b] :
                <<a, b>> \in {ab \in (1..NumSources) \X (1..NumSources) :
                                ab[1] < ab[2]} } }

\* the loop body applied to an accumulator
MergeFeed(all, feed) == MergedWith(all, ParsedFeed(feed.source, feed.answer))

InitMerge ==
  /\ response = FetchError
  /\ fs = NoDisk
  /\ pc = "merge"
  /\ i = 0
  /\ allCompromised = EmptyMap
  /\ sourceCompromised = EmptyMap
  /\ failed = {}
  /\ allPackages = EmptyMap
  /\ warnings = <<>>
  /\ results = NoResults
  /\ exitCode = -1
  /\ pair \in FeedPairs
  /\ regAB = EmptyMap
  /\ regBA = EmptyMap
  /\ mergeStep = 0
  /\ InitGlobal

MergeFirst ==
  /\ mergeStep = 0
  /\ regAB' = MergeFeed(regAB, pair[1])
  /\ regBA' = MergeFeed(regBA, pair[2])
  /\ mergeStep' = 1
  /\ UNCHANGED <<response, fs, pc, i, allCompromised, sourceCompromised, failed,
                 allPackages, warnings, results, exitCode, pair, globalVars>>

MergeSecond ==
  /\ mergeStep = 1
  /\ regAB' = MergeFeed(regAB, pair[2])
  /\ regBA' = MergeFeed(regBA, pair[1])
  /\ mergeStep' = 2
  /\ UNCHANGED <<response, fs, pc, i, allCompromised, sourceCompromised, failed,
                 allPackages, warnings, results, exitCode, pair, globalVars>>

NextMerge == MergeFirst \/ MergeSecond

SpecMerge == InitMerge /\ [][NextMerge]_vars

----------------------------------------------------------------------------
(* The global package checker: parseCompromisedList of the first script *)

\* obj.f for a string-valued field, and for a field that holds a JSON value
Prop(obj, f) == IF f \in DOMAIN obj THEN obj[f] ELSE UNDEF
Member(data, f) == IF f \in DOMAIN data THEN data[f] ELSE JsonUndefined

\* `${x}` for a string or undefined
ToStr(x) == IF x = UNDEF THEN <<"u", "n", "d", "e", "f", "i", "n", "e", "d">> ELSE x

High == <<"h", "i", "g", "h">>
Critical == <<"c", "r", "i", "t", "i", "c", "a", "l">>
Unknown == <<"u", "n", "k", "n", "o", "w", "n">>
TenableSource == <<"t", "e", "n", "a", "b", "l", "e">>
ListSource == <<"l", "i", "s", "t">>

\* data.packages.forEach (gensec TRUE) and data.forEach (gensec FALSE);
\* reading a property of null throws TypeError
RECURSIVE ParseRecordsGlobal(_, _, _)
ParseRecordsGlobal(compromised, items, gensec) ==
  IF items = <<>> THEN Ok(compromised)
  ELSE LET pkg == Head(items) IN
    IF pkg.t = "null" THEN Throw
    ELSE LET name == IF gensec THEN Prop(pkg, "name") ELSE Prop(pkg, "package")
             version == Prop(pkg, "version")
             key == ToStr(name) \o <<"@">> \o ToStr(version)
             info == [name     |-> name,
                      version  |-> version,
                      severity |-> IF gensec THEN OrElse(Prop(pkg, "severity"), High)
                                   ELSE Critical,
                      source   |-> IF gensec THEN OrElse(Prop(pkg, "source"), Unknown)
                                   ELSE TenableSource]
         IN  ParseRecordsGlobal(MapSet(compromised, key, info), Tail(items), gensec)

\* data.compromisedPackages.forEach: const [name, version] = pkgStr.split('@');
\* an entry that is not a string has no split and throws TypeError
RECURSIVE ParseStringsGlobal(_, _)
ParseStringsGlobal(compromised, items) ==
  IF items = <<>> THEN Ok(compromised)
  ELSE LET pkgStr == Head(items) IN
    IF pkgStr.t # "string" THEN Throw
    ELSE LET parts == Split(pkgStr.s, "@")
             info == [name     |-> parts[1],
                      version  |-> IF Len(parts) >= 2 THEN parts[2] ELSE UNDEF,
                      severity |-> High,
                      source   |-> ListSource]
         IN  ParseStringsGlobal(MapSet(compromised, pkgStr.s, info), Tail(items))

\* parseCompromisedList(data) of the global checker; data.packages of null
\* throws TypeError
parseCompromisedListGlobal(data) ==
  IF data.t = "null" THEN Throw
  ELSE IF Member(data, "packages").t = "array"
    THEN ParseRecordsGlobal(EmptyMap, data.packages.items, TRUE)
  ELSE IF data.t = "array"
    THEN ParseRecordsGlobal(EmptyMap, data.items, FALSE)
  ELSE IF Member(data, "compromisedPackages").t = "array"
    THEN ParseStringsGlobal(EmptyMap, data.compromisedPackages.items)
  ELSE Ok(EmptyMap)

----------------------------------------------------------------------------
(* The global package checker: flattenDependencies and checkForCompromised *)

UnknownPath == <<"u", "n", "k", "n", "o", "w", "n">>

\* deps is the sequence of Object.entries(deps), each [name, info]; the empty
\* sequence stands for an object without entries and for undefined (!deps)
RECURSIVE flattenDependencies(_, _)
flattenDependencies(deps, result) ==
  IF deps = <<>> THEN result
  ELSE LET name == Head(deps).name
           info == Head(deps).info
           r1 == IF Truthy(info.version)
                   THEN MapSet(result, name \o <<"@">> \o info.version,
                               [name    |-> name,
                                version |-> info.version,
                                path    |-> OrElse(info.path, UnknownPath)])
                   ELSE result
           r2 == IF info.dependencies # <<>>
                   THEN flattenDependencies(info.dependencies, r1)
                   ELSE r1
       IN  flattenDependencies(Tail(deps), r2)

\* for (const [key, pkg] of installedPackages): {...pkg, ...compromisedInfo}
RECURSIVE CheckKeys(_, _, _, _)
CheckKeys(found, keys, installed, compromisedList) ==
  IF keys = <<>> THEN found
  ELSE LET key == Head(keys)
           f1 == IF MapHas(compromisedList, key)
                   THEN LET compromisedInfo == MapGet(compromisedList, key) IN
                     Append(found, [name     |-> compromisedInfo.name,
                                    version  |-> compromisedInfo.version,
                                    path     |-> MapGet(installed, key).path,
                                    severity |-> compromisedInfo.severity,
                                    source   |-> compromisedInfo.source])
                   ELSE found
       IN  CheckKeys(f1, Tail(keys), installed, compromisedList)

checkForCompromised(installed, compromisedList) ==
  CheckKeys(<<>>, installed.keys, installed, compromisedList)

----------------------------------------------------------------------------
(* The global package checker: fetchCompromisedPackages and main *)

\* the URLs of the first script's COMPROMISED_SOURCES, in the array's order
COMPROMISED_SOURCES_GLOBAL ==
  <<"gensecaihq/Shai-Hulud-2.0-Detector/main/compromised-packages.json",
    "tenable/shai-hulud-second-coming-affected-packages/main/list.json">>

NumGlobalSources == Len(COMPROMISED_SOURCES_GLOBAL)

\* Mutant of FetchFromSource: the failure of a source is not caught, so it
\* ends the loop and reaches main's catch without a request to the next one.
FetchFromSourceNoFallback(answer) ==
  /\ requests' = Append(requests, [url |-> COMPROMISED_SOURCES_GLOBAL[i + 1],
                                   answer |-> answer])
  /\ i' = i + 1
  /\ document' = IF answer.kind = "json" THEN answer.value ELSE document
  /\ pc' = IF answer.kind = "json" THEN "parseGlobal" ELSE "catch"

\* One iteration of for (const url of COMPROMISED_SOURCES): fetchUrl(url) is
\* answered by `answer`.  A rejection (network error, status other than 200)
\* and a body JSON.parse throws on land in the catch, which warns and goes on
\* with the next URL; after the last URL the function throws, which main
\* catches.  A body that parses is returned at once.
FetchFromSource(answer) ==
  /\ requests' = Append(requests, [url |-> COMPROMISED_SOURCES_GLOBAL[i + 1],
                                   answer |-> answer])
  /\ i' = i + 1
  /\ document' = IF answer.kind = "json" THEN answer.value ELSE document
  /\ pc' = IF answer.kind = "json" THEN "parseGlobal"
           ELSE IF i + 1 < NumGlobalSources THEN "fetchGlobal"
           ELSE "catch"

\* entries of a compromisedPackages list: foo@1.0, @s/bar@2.0, bar
ListEntries ==
  {JsonString(Foo \o <<"@">> \o V10), JsonString(ScopedLine), JsonString(Bar)}

ListDoc(entries) ==
  [t |-> "object", packages |-> JsonUndefined,
   compromisedPackages |-> JsonArray(entries)]

\* documents a list URL may serve
GlobalDocuments ==
  { JsonNull, JsonNumber,
    JsonObject(JsonArray(<<Record(Foo, UNDEF, V10), Record(ScopedBar, UNDEF, V20)>>)),
    JsonObject(JsonArray(<<JsonNull>>)),
    JsonArray(<<Record(UNDEF, Foo, V09), Record(UNDEF, Bar, UNDEF)>>),
    ListDoc(<<JsonNull>>) }
    \cup {ListDoc(es) : es \in SeqUpTo(ListEntries, MaxRecords)}

\* what each URL may answer: a rejection, a page that is not JSON, a document
GlobalAnswers ==
  {FetchError, TextBody(<<"<", "h", "t", "m", "l", ">">>)}
    \cup {JsonBody(d) : d \in GlobalDocuments}

GlobalResponses == [k \in 1..NumGlobalSources |-> GlobalAnswers]

\* an entry of a dependencies object of npm list -g --json
Dep(name, version, dependencies) ==
  [name |-> name,
   info |-> [version |-> version, path |-> UNDEF, dependencies |-> dependencies]]

\* what getGlobalPackages gives: an exception (unreadable or malformed
\* global-packages.json, npm without output), or globalData.dependencies
GlobalPackages ==
  { Throw,
    Ok(<<>>),
    Ok(<<Dep(Foo, V10, <<Dep(ScopedBar, V20, <<>>)>>)>>),
    Ok(<<Dep(Bar, UNDEF, <<>>), Dep(Foo, V09, <<>>)>>) }

InitGlobalChecker ==
  /\ response = FetchError
  /\ fs = NoDisk
  /\ pc = "fetchGlobal"
  /\ i = 0
  /\ allCompromised = EmptyMap
  /\ sourceCompromised = EmptyMap
  /\ failed = {}
  /\ allPackages = EmptyMap
  /\ warnings = <<>>
  /\ results = NoResults
  /\ exitCode = -1
  /\ pair = <<>>
  /\ regAB = EmptyMap
  /\ regBA = EmptyMap
  /\ mergeStep = 0
  /\ InitGlobal

\* the state of the deep scanner and of the merge-order runs but pc, i, exitCode
deepVars ==
  <<response, fs, allCompromised, sourceCompromised, failed, allPackages,
    warnings, results, pair, regAB, regBA, mergeStep>>

\* fetchCompromisedPackages, one URL per step
FetchCompromisedPackages(answers) ==
  /\ pc = "fetchGlobal"
  /\ i < NumGlobalSources
  /\ \E answer \in answers[i + 1] : FetchFromSource(answer)
  /\ UNCHANGED <<globalList, installedPackages, compromisedFound, exitCode,
                 deepVars>>

\* const compromisedList = parseCompromisedList(compromisedData)
ParseGlobal ==
  /\ pc = "parseGlobal"
  /\ LET parsed == parseCompromisedListGlobal(document) IN
       /\ globalList' = IF parsed.ok THEN parsed.value ELSE globalList
       /\ pc' = IF parsed.ok THEN "checkGlobal" ELSE "catch"
  /\ UNCHANGED <<requests, document, installedPackages, compromisedFound, i,
                 exitCode, deepVars>>

\* getGlobalPackages, flattenDependencies, checkForCompromised,
\* displayResults and process.exit(compromisedFound.length > 0 ? 1 : 0)
CheckGlobal(packages) ==
  /\ pc = "checkGlobal"
  /\ \E globalData \in packages :
       IF globalData.ok
         THEN LET installed == flattenDependencies(globalData.value, EmptyMap)
                  found == checkForCompromised(installed, globalList)
              IN  /\ installedPackages' = installed
                  /\ compromisedFound' = found
                  /\ exitCode' = IF Len(found) > 0 THEN 1 ELSE 0
                  /\ pc' = "doneGlobal"
         ELSE /\ pc' = "catch"
              /\ UNCHANGED <<installedPackages, compromisedFound, exitCode>>
  /\ UNCHANGED <<requests, document, globalList, i, deepVars>>

\* catch (err) { console.error(...); process.exit(2) }
CatchGlobal ==
  /\ pc = "catch"
  /\ exitCode' = 2
  /\ pc' = "doneGlobal"
  /\ UNCHANGED <<globalVars, i, deepVars>>

NextGlobal ==
  \/ FetchCompromisedPackages(GlobalResponses)
  \/ ParseGlobal
  \/ CheckGlobal(GlobalPackages)
  \/ CatchGlobal

SpecGlobal == InitGlobalChecker /\ [][NextGlobal]_vars

----------------------------------------------------------------------------
(* Properties of getAllInstalledPackages *)

Scanned == pc \in {"exit", "done"}

InstalledNames == DOMAIN allPackages.val

\* the tree has no unreadable directory and every entry has a manifest with
\* a version, so the walk meets every entry
CleanDisk(disk) ==
  /\ disk.unreadable = {}
  /\ \A p \in DOMAIN disk.pkgs : disk.pkgs[p] \in GoodStatus

\* C1: after the walk of a tree in which every package directory has a
\* readable manifest, the returned map holds one record per install path:
\* each package directory is the path of a record that carries its version.
C1_OneRecordPerInstallPath ==
  (Scanned /\ CleanDisk(fs)) =>
    \A p \in DOMAIN fs.pkgs :
      \E name \in InstalledNames :
        /\ allPackages.val[name].path = p
        /\ allPackages.val[name].version = fs.pkgs[p].version

\* C7: no record of the returned map lacks a version (a package whose
\* manifest has no version field is left out).
C7_VersionlessExcluded ==
  Scanned => \A name \in InstalledNames : allPackages.val[name].version # UNDEF

ScopeDir == PathJoin(RootNodeModules, Scope)

\* C8: when the listing of the scope directory fails, a warning is reported
\* and every unscoped package of the same container that has a readable
\* manifest is still in the returned map.
C8_SiblingsSurviveReadFailure ==
  (Scanned /\ fs.unreadable = {ScopeDir}) =>
    /\ warnings # <<>>
    /\ \A name \in {Foo, Bar} :
         LET p == PathJoin(RootNodeModules, name) IN
           (p \in DOMAIN fs.pkgs /\ fs.pkgs[p].t = "manifest")
             => MapHas(allPackages, name)

----------------------------------------------------------------------------
(* Properties of scanAllPackages *)

\* positions of the records of a result list that are about `name`
Hits(list, name) == {k \in DOMAIN list : list[k].name = name}

Listed(name) == MapHas(allCompromised, name)

KnownBad(name) == DOMAIN allCompromised.val[name].versions.val

\* C2: once the scan has run, every installed package is in exactly one of
\* compromised, suspicious or safe, and compromised.length +
\* suspicious.length + safe = totalScanned = the number of installed packages.
C2_Partition ==
  Scanned =>
    /\ results.totalScanned = MapSize(allPackages)
    /\ Len(results.compromised) + Len(results.suspicious) + results.safe
         = results.totalScanned
    /\ \A name \in InstalledNames :
         Cardinality(Hits(results.compromised, name))
           + Cardinality(Hits(results.suspicious, name)) <= 1
    /\ results.safe =
         Cardinality({name \in InstalledNames :
                        Hits(results.compromised, name) = {}
                        /\ Hits(results.suspicious, name) = {}})

\* the scan found a compromised and a suspicious package
C2_Witness ==
  /\ pc = "done"
  /\ Len(results.compromised) >= 1
  /\ Len(results.suspicious) >= 1

\* C3: an installed package is reported as compromised exactly when the
\* registry has an entry for its name whose versions contain the installed
\* version; the record carries every known-bad version of the name and the
\* source set of the matched version.
C3_CompromisedExact ==
  Scanned =>
    /\ \A name \in InstalledNames :
         Hits(results.compromised, name) # {}
           <=> (Listed(name) /\ allPackages.val[name].version \in KnownBad(name))
    /\ \A k \in DOMAIN results.compromised :
         LET r == results.compromised[k]
             entry == allCompromised.val[r.name]
         IN  /\ r.name \in InstalledNames
             /\ r.installedVersion = allPackages.val[r.name].version
             /\ r.path = allPackages.val[r.name].path
             /\ Range(r.compromisedVersions) = DOMAIN entry.versions.val
             /\ r.sources = entry.versions.val[r.installedVersion]

\* a compromised record whose matched version has fewer sources than the entry
C3_Witness ==
  /\ pc = "done"
  /\ \E k \in DOMAIN results.compromised :
       /\ results.compromised[k].sources # results.compromised[k].allSources
       /\ Len(results.compromised[k].compromisedVersions) >= 2

\* C4: an installed package is reported as suspicious exactly when the
\* registry has an entry for its name and the installed version is not among
\* the entry's versions; the record carries every known-bad version and the
\* entry's overall source set; a package without an entry only counts as safe.
C4_SuspiciousExact ==
  Scanned =>
    /\ \A name \in InstalledNames :
         Hits(results.suspicious, name) # {}
           <=> (Listed(name) /\ allPackages.val[name].version \notin KnownBad(name))
    /\ \A k \in DOMAIN results.suspicious :
         LET r == results.suspicious[k]
             entry == allCompromised.val[r.name]
         IN  /\ r.name \in InstalledNames
             /\ r.installedVersion = allPackages.val[r.name].version
             /\ r.path = allPackages.val[r.name].path
             /\ Range(r.compromisedVersions) = DOMAIN entry.versions.val
             /\ r.sources = entry.sources
    /\ results.safe = Cardinality({name \in InstalledNames : ~Listed(name)})
    /\ \A name \in InstalledNames :
         ~Listed(name) =>
           Hits(results.compromised, name) \cup Hits(results.suspicious, name) = {}

\* a suspicious record of an entry with two versions from different sources,
\* next to a package that is only counted as safe
C4_Witness ==
  /\ pc = "done"
  /\ results.safe >= 1
  /\ \E k \in DOMAIN results.suspicious :
       LET r == results.suspicious[k] IN
         /\ Len(r.compromisedVersions) >= 2
         /\ Len(r.sources) >= 2

ScopedBarPath == PathJoin(ScopeDir, Bar)

\* C14: a package installed at node_modules/@s/bar, with the container and
\* the scope directory readable, is recorded under "@s/bar" with its own path
\* and version, whatever else is installed; no record of another name has
\* that path; and its verdict is taken from the registry entry of "@s/bar"
\* alone: compromised iff that entry has its version, suspicious iff that
\* entry exists without its version, each with that entry's versions.
C14_ScopedIdentity ==
  Scanned =>
    /\ (/\ ScopedBarPath \in DOMAIN fs.pkgs
        /\ fs.pkgs[ScopedBarPath].t = "manifest"
        /\ fs.unreadable \cap {RootNodeModules, ScopeDir} = {})
         => /\ MapHas(allPackages, ScopedBar)
            /\ allPackages.val[ScopedBar].path = ScopedBarPath
            /\ allPackages.val[ScopedBar].version = fs.pkgs[ScopedBarPath].version
    /\ \A name \in InstalledNames :
         allPackages.val[name].path = ScopedBarPath <=> name = ScopedBar
    /\ MapHas(allPackages, ScopedBar) =>
         LET version == allPackages.val[ScopedBar].version
             rs == {results.compromised[k] : k \in Hits(results.compromised, ScopedBar)}
                     \cup {results.suspicious[k] :
                             k \in Hits(results.suspicious, ScopedBar)}
         IN  /\ Hits(results.compromised, ScopedBar) # {}
                  <=> (Listed(ScopedBar) /\ version \in KnownBad(ScopedBar))
             /\ Hits(results.suspicious, ScopedBar) # {}
                  <=> (Listed(ScopedBar) /\ version \notin KnownBad(ScopedBar))
             /\ \A r \in rs :
                  /\ r.path = ScopedBarPath
                  /\ Range(r.compromisedVersions) = KnownBad(ScopedBar)

\* bar and @s/bar are installed with the same version, the registry lists
\* that version of bar and has no entry for @s/bar: bar is reported and
\* @s/bar only counts as safe
C14_Witness ==
  /\ pc = "done"
  /\ MapHas(allPackages, Bar)
  /\ MapHas(allPackages, ScopedBar)
  /\ allPackages.val[Bar].version = allPackages.val[ScopedBar].version
  /\ Listed(Bar)
  /\ ~Listed(ScopedBar)
  /\ Hits(results.compromised, Bar) # {}
  /\ results.safe = 1

\* package directories whose manifest is missing or does not parse
BadManifests(disk) ==
  {q \in DOMAIN disk.pkgs : disk.pkgs[q].t \in {"nomanifest", "corrupt"}}

\* the tree without those directories and what lies below them
Pruned(disk) ==
  LET kept == {p \in DOMAIN disk.pkgs :
                 \A q \in BadManifests(disk) : p # q /\ ~IsProperPrefix(q, p)}
  IN  [disk EXCEPT !.pkgs = [p \in kept |-> disk.pkgs[p]]]

\* C15: in a tree whose directories are all readable and in which some
\* package directory has a missing or unparsable manifest, the walk reports
\* no error, every entry of the root container that has a parsed manifest
\* has a record of its name, and the returned map is the one the walk
\* returns for the tree without the directories of the bad manifests: only
\* those packages are left out.
C15_BadManifestSkipsOnlyItself ==
  (Scanned /\ fs.unreadable = {} /\ BadManifests(fs) # {}) =>
    /\ warnings = <<>>
    /\ \A name \in {Foo, Bar} :
         LET p == PathJoin(RootNodeModules, name) IN
           (p \in DOMAIN fs.pkgs /\ fs.pkgs[p].t = "manifest")
             => MapHas(allPackages, name)
    /\ (ScopedBarPath \in DOMAIN fs.pkgs /\ fs.pkgs[ScopedBarPath].t = "manifest")
         => MapHas(allPackages, ScopedBar)
    /\ allPackages =
         getAllInstalledPackages(Pruned(fs), RootNodeModules, NoPackages).scanned

\* a root entry whose manifest does not parse is listed before a sibling
\* with a good manifest, and the sibling is recorded at its path
C15_Witness ==
  /\ pc = "done"
  /\ fs.unreadable = {}
  /\ \E q \in BadManifests(fs) :
       \E name \in {Foo, Bar} :
         LET p == PathJoin(RootNodeModules, name) IN
           /\ Len(q) = 2
           /\ fs.pkgs[q].t = "corrupt"
           /\ p \in DOMAIN fs.pkgs
           /\ fs.pkgs[p].t = "manifest"
           /\ \E a, b \in DOMAIN fs.order :
                a < b /\ fs.order[a] = q[2] /\ fs.order[b] = name
           /\ MapHas(allPackages, name)
           /\ allPackages.val[name].path = p

----------------------------------------------------------------------------
(* Properties of main *)

\* C5: a run in which every source failed ends with exit code 2.
C5_AllFeedsFailedIsFatal ==
  (pc = "done" /\ failed = 1..NumSources) => exitCode = 2

----------------------------------------------------------------------------
(* Properties of fetchCompromisedPackages (global checker) *)

\* the request was answered with status 200 and a body that parses as JSON
Succeeded(request) == request.answer.kind = "json"

AllFailed == \A k \in DOMAIN requests : ~Succeeded(requests[k])

\* fetchCompromisedPackages threw: main is in or past its catch and has no
\* document
FetchThrew == pc \in {"catch", "doneGlobal"} /\ document = NoDocument

\* C16: the requests go to the URLs in the order of the list, each at most
\* once; every request but the last one failed, so a URL is requested only
\* after all earlier ones failed and none after a success; the loop goes on
\* exactly while every request failed and a URL is left; the returned
\* document is the parsed body of the request that succeeded; and the
\* function throws exactly when all URLs were requested and all failed.
C16_FirstWorkingSource ==
  /\ Len(requests) <= NumGlobalSources
  /\ \A k \in DOMAIN requests : requests[k].url = COMPROMISED_SOURCES_GLOBAL[k]
  /\ \A k \in DOMAIN requests : k < Len(requests) => ~Succeeded(requests[k])
  /\ pc = "fetchGlobal" <=> (AllFailed /\ Len(requests) < NumGlobalSources)
  /\ document # NoDocument <=> ~AllFailed
  /\ ~AllFailed => document = requests[Len(requests)].answer.value
  /\ FetchThrew <=> (AllFailed /\ Len(requests) = NumGlobalSources)

\* the first URL failed and the second one gave the document
C16_Witness ==
  /\ pc = "checkGlobal"
  /\ Len(requests) = 2
  /\ ~Succeeded(requests[1])
  /\ Succeeded(requests[2])
  /\ MapSize(globalList) >= 1

----------------------------------------------------------------------------
(* Properties of parseCompromisedList and fetchAllCompromisedPackages *)

\* C6: the partial registry of a feed has no empty or undefined identifier
\* and no empty or undefined version key.
C6_NoEmptyOrUndefinedKeys ==
  \A name \in DOMAIN sourceCompromised.val :
    /\ Truthy(name)
    /\ \A version \in DOMAIN sourceCompromised.val[name].versions.val :
         Truthy(version)

\* A feed that gives nothing to read: the fetch failed, the body is text
\* without any of the separators a line needs ('|', ':' or '@'; the empty
\* text is one such), or the body is JSON that is neither a string, nor an
\* array, nor an object whose packages field is an array.
Unusable(answer) ==
  \/ answer.kind = "error"
  \/ answer.kind = "text" /\ Range(answer.text) \cap {"|", ":", "@"} = {}
  \/ /\ answer.kind = "json"
     /\ \/ answer.value.t \in {"null", "number"}
        \/ answer.value.t = "object" /\ answer.value.packages.t # "array"

Pairs(reg) ==
  UNION {{<<name, version>> : version \in DOMAIN reg.val[name].versions.val} :
           name \in DOMAIN reg.val}

SourcesOf(reg, nv) ==
  IF nv \in Pairs(reg) THEN Range(reg.val[nv[1]].versions.val[nv[2]]) ELSE {}

\* names of the feeds merged so far
MergedFeeds == {COMPROMISED_SOURCES[k].name : k \in (1..i) \ failed}

\* C11: the unified registry starts without pairs; merging a feed adds exactly
\* the identifier+version pairs of the feed's partial registry, and adds the
\* feed's name, and nothing else, to the source set of exactly those pairs.
\* So a pair is in the registry iff a merged feed reported it, and its
\* source set is the set of the feeds that reported it, which is never empty.
C11_VersionSourcesExact ==
  /\ [](i = 0 => Pairs(allCompromised) = {})
  /\ [][i' = i + 1 =>
         /\ Pairs(allCompromised') =
              Pairs(allCompromised) \cup Pairs(sourceCompromised')
         /\ \A nv \in Pairs(allCompromised') :
              SourcesOf(allCompromised', nv) =
                SourcesOf(allCompromised, nv) \cup
                  (IF nv \in Pairs(sourceCompromised')
                     THEN {COMPROMISED_SOURCES[i'].name} ELSE {})]_vars
  /\ [](\A nv \in Pairs(allCompromised) :
          /\ SourcesOf(allCompromised, nv) # {}
          /\ SourcesOf(allCompromised, nv) \subseteq MergedFeeds)

\* two feeds reported one pair: its source set has size 2, next to a pair
\* that one feed reported
C11_Witness ==
  /\ i >= 2
  /\ \E nv \in Pairs(allCompromised) :
       Cardinality(SourcesOf(allCompromised, nv)) = 2
  /\ \E nv \in Pairs(allCompromised) :
       Cardinality(SourcesOf(allCompromised, nv)) = 1

\* index of the last occurrence of the character c in s, 0 if there is none
LastIndexOf(s, c) ==
  LET ks == {k \in DOMAIN s : s[k] = c} IN
    IF ks = {} THEN 0 ELSE CHOOSE k \in ks : \A j \in ks : j <= k

\* a namespaced entry "@scope/name@version": a leading '@', a later '@' with
\* text on both sides, and no blank, comment mark or other separator
IsScopedEntry(s) ==
  /\ s # <<>>
  /\ s[1] = "@"
  /\ LastIndexOf(s, "@") > 2
  /\ LastIndexOf(s, "@") < Len(s)
  /\ Range(s) \cap {"|", ":", "#", " ", "\t", "\r"} = {}

ScopedName(s) == SubSeq(s, 1, LastIndexOf(s, "@") - 1)

ScopedVersion(s) == SubSeq(s, LastIndexOf(s, "@") + 1, Len(s))

\* the text the deep scanner reads line by line: a body that is not JSON, or
\* a JSON string
FeedText(answer) ==
  IF answer.kind = "text" THEN answer.text
  ELSE IF answer.kind = "json" /\ answer.value.t = "string" THEN answer.value.s
  ELSE <<>>

\* every namespaced line of the text feed read last is in its partial registry
\* under "@scope/name" with the text after the last '@' as version
C12_TextLines ==
  i >= 1 =>
    \A line \in Range(Split(FeedText(response), "\n")) :
      IsScopedEntry(line) =>
        <<ScopedName(line), ScopedVersion(line)>> \in Pairs(sourceCompromised)

\* every namespaced string of a compromisedPackages list has an entry whose
\* name is "@scope/name" and whose version is the text after the last '@'
C12_ListEntries ==
  (/\ pc = "checkGlobal"
   /\ Member(document, "packages").t # "array"
   /\ Member(document, "compromisedPackages").t = "array") =>
    \A entry \in Range(document.compromisedPackages.items) :
      (entry.t = "string" /\ IsScopedEntry(entry.s)) =>
        /\ MapHas(globalList, entry.s)
        /\ MapGet(globalList, entry.s).name = ScopedName(entry.s)
        /\ MapGet(globalList, entry.s).version = ScopedVersion(entry.s)

\* C12: a feed entry written "@scope/name@version" is parsed into the name
\* "@scope/name" and the version after the last '@', as a line of a text feed
\* (deep scanner) and as a string of a compromisedPackages list (global
\* checker).
C12_ScopedEntryParsed == C12_TextLines /\ C12_ListEntries

\* the cells of a pipe-delimited row: split on '|', trim, drop the empty ones
RowCells(line) ==
  LET cells == Split(line, "|") IN
    FilterNonEmpty([k \in DOMAIN cells |-> Trim(cells[k])])

\* C13: every non-blank, non-comment line of the text feed read last that
\* holds a pipe-delimited row with at least two cells, the first of which is
\* not "Package", has its first two cells as a name+version pair of the
\* feed's partial registry, whether or not the line begins with '|'.
C13_PipeRowsContribute ==
  i >= 1 =>
    \A rawLine \in Range(Split(FeedText(response), "\n")) :
      LET line == Trim(rawLine)
          cells == RowCells(line)
      IN  (/\ line # <<>>
           /\ ~StartsWith(line, "#")
           /\ Includes(line, "|")
           /\ Len(cells) >= 2
           /\ cells[1] # Package)
            => <<cells[1], cells[2]>> \in Pairs(sourceCompromised)

\* same identifiers, same versions per identifier, same source set per version
SameRegistry(a, b) ==
  /\ DOMAIN a.val = DOMAIN b.val
  /\ \A name \in DOMAIN a.val :
       /\ DOMAIN a.val[name].versions.val = DOMAIN b.val[name].versions.val
       /\ \A version \in DOMAIN a.val[name].versions.val :
            Range(a.val[name].versions.val[version])
              = Range(b.val[name].versions.val[version])

\* C10: merging feed A then feed B gives the same identifiers, versions and
\* source sets as merging B then A.
C10_MergeOrderIndependent ==
  mergeStep = 2 => SameRegistry(regAB, regBA)

\* both feeds reported one pair, and the two registries differ in order only
C10_Witness ==
  /\ mergeStep = 2
  /\ regAB # regBA
  /\ \E name \in DOMAIN regAB.val :
       \E version \in DOMAIN regAB.val[name].versions.val :
         Len(regAB.val[name].versions.val[version]) = 2

====
